---- MODULE Spec2Model ----
(***************************************************************************)
(* Budget derivation and state synchronisation of the Spendly dashboard.   *)
(*                                                                         *)
(* The repository holds two copies of the dashboard script:                *)
(*   "backend"   src/backend/dashboard.js                                  *)
(*   "dashboard" src/unnamed/part_001, lines 1254-3362 (the annotated      *)
(*               dashboard.js)                                             *)
(* and the persistence module firebase-init.js (src/unnamed/part_000).     *)
(* The variable script says which copy the page has loaded; the actions    *)
(* follow that copy where the two differ.                                  *)
(*                                                                         *)
(* Presentation-only fields (icons, colours, formatted dates, authors) are *)
(* left out of the records; every field a derivation or the persistence    *)
(* code reads is kept.                                                     *)
(***************************************************************************)
EXTENDS Integers, Sequences, FiniteSets, TLC

-----------------------------------------------------------------------------
(* Bounds of the model *)

MaxOps == 2        \* handler calls in one session
MaxInflight == 2   \* remote writes issued and not yet completed
MaxTimers == 2     \* pending 300 ms retry timers
MaxTicks == 1      \* calendar-day changes during the session

-----------------------------------------------------------------------------
(* JavaScript numbers: integers plus NaN and the two infinities *)

Num(n) == [k |-> "num", v |-> n]
NaN == [k |-> "NaN", v |-> 0]
PosInf == [k |-> "Infinity", v |-> 0]
NegInf == [k |-> "-Infinity", v |-> 0]

IsFinite(x) == x.k = "num"

\* !x for a number x
Falsy(x) == x.k = "NaN" \/ (x.k = "num" /\ x.v = 0)

JsNeg(x) ==
  CASE x.k = "num" -> Num(0 - x.v)
    [] x.k = "Infinity" -> NegInf
    [] x.k = "-Infinity" -> PosInf
    [] OTHER -> NaN

JsAdd(x, y) ==
  CASE x.k = "NaN" \/ y.k = "NaN" -> NaN
    [] x.k = "num" /\ y.k = "num" -> Num(x.v + y.v)
    [] x.k = "num" -> y
    [] y.k = "num" -> x
    [] x.k = y.k -> x
    [] OTHER -> NaN

JsSub(x, y) == JsAdd(x, JsNeg(y))

\* variant: the operands of the division are exchanged
JsFloorDivSwapped(x, y) ==
  IF x.k = "num" /\ y.k = "num" /\ x.v > 0 THEN Num(y.v \div x.v) ELSE NaN

\* Math.floor(x / y)
JsFloorDiv(x, y) ==
  CASE x.k = "NaN" \/ y.k = "NaN" -> NaN
    [] x.k = "num" /\ y.k = "num" ->
         IF y.v = 0
           THEN (IF x.v = 0 THEN NaN ELSE IF x.v > 0 THEN PosInf ELSE NegInf)
           ELSE IF y.v > 0 THEN Num(x.v \div y.v)
                ELSE Num((0 - x.v) \div (0 - y.v))
    [] x.k = "num" -> Num(0)
    [] y.k = "num" ->
         IF y.v = 0 THEN x
         ELSE IF y.v > 0 THEN x ELSE JsNeg(x)
    [] OTHER -> NaN

\* Math.max(0, x)
JsMax0(x) ==
  CASE x.k = "NaN" -> NaN
    [] x.k = "Infinity" -> PosInf
    [] x.k = "-Infinity" -> Num(0)
    [] OTHER -> IF x.v > 0 THEN x ELSE Num(0)

\* x > 0
JsPositive(x) == x.k = "Infinity" \/ (x.k = "num" /\ x.v > 0)

\* parseInt of the text of a form field, on the texts the model enters
parseInt(s) ==
  CASE s = "0" -> Num(0)
    [] s = "-5" -> Num(0 - 5)
    [] s = "50" -> Num(50)
    [] s = "100" -> Num(100)
    [] s = "1000" -> Num(1000)
    [] s = "10000" -> Num(10000)
    [] s = "15000" -> Num(15000)
    [] s = "30000" -> Num(30000)
    [] OTHER -> NaN

-----------------------------------------------------------------------------
(* Time: Date.now(), counted here in seconds (TLC's integers are 32 bits   *)
(* wide and a month of milliseconds does not fit); the model's month       *)
(* starts at 0                                                             *)

oneDayMs == 24 * 60 * 60

\* Date#getDate(): the day of the month, 1-based
getDate(ts) == (ts \div oneDayMs) + 1

\* the calendar date of a timestamp (day number since the start of the month)
dateOf(ts) == ts \div oneDayMs

-----------------------------------------------------------------------------
(* Documents of the remote store and of window.userData *)

GroupNames == {"Roommates", "Trip"}

ScalarFields == {"name", "phone", "avatar", "email", "createdAt", "monthlyLimit"}
ListFields == {"transactions", "fixedExpenses", "goals", "loans"}
MapFields == {"chatGroups", "groupMembers"}
Fields == ScalarFields \cup ListFields \cup MapFields

\* a JavaScript object used as a map from group name to array: keys are the
\* group names that are set, at[g] the array of g (empty for an unset key)
EmptyMap == [keys |-> {}, at |-> [g \in GroupNames |-> <<>>]]

defaultAvatar == "https://api.dicebear.com/7.x/avataaars/svg?seed=default"

\* a document: has is the set of fields that are present; an absent field
\* holds the filler value written here
EmptyDoc ==
  [has |-> {}, name |-> "", phone |-> "", avatar |-> "", email |-> "",
   createdAt |-> 0, monthlyLimit |-> 0,
   transactions |-> <<>>, fixedExpenses |-> <<>>, goals |-> <<>>, loans |-> <<>>,
   chatGroups |-> EmptyMap, groupMembers |-> EmptyMap]

\* the document loadUserDoc creates for a first-time user
newUser(t) ==
  [EmptyDoc EXCEPT !.has = Fields, !.name = "User", !.avatar = defaultAvatar,
                   !.createdAt = t]

-----------------------------------------------------------------------------
(* State *)

VARIABLES
  script,           \* which copy of dashboard.js the page runs
  now,              \* Date.now()
  daysInMonth,      \* length of the current calendar month
  uid,              \* window._uid ("" is null)
  authPc,           \* position of the onAuthStateChanged callback
  remote,           \* the user's document in the remote store
  inflight,         \* setDoc calls issued and not yet completed
  timers,           \* pending setTimeout(() => syncUserData(data), 300)
  bareTimers,       \* those of them whose data is undefined
  lastWrite,        \* the last setDoc call that completed, and how it ended
  userData,         \* window.userData: its scalar fields and the fields it has
  preData,          \* the window.userData object replaced at hydration
  userProfile, transactions, fixedExpenses, activeGoals, activeLoans,
  chatStore, groupMembers, monthlyLimit, dailySpent,
  safeSpendAmount,  \* the figure shown in #safeSpendAmount
  heatmap,          \* each day's cell in #heatmapGrid: its tier and its amount
  currentFilter,    \* the period the spending analysis is filtered by
  sentimentTotals,  \* the totals the spending analysis shows
  currentChatId,    \* the chat group that is open
  renderTimers,     \* pending setTimeout(() => renderHeatmap(), 10)
  tempMembers,      \* the members entered in the group creator
  tzOffset,         \* seconds the browser's local time is ahead of UTC
  toast,            \* message of the last window.showToast of the last handler
  thrown,           \* error that ended the last handler ("" if none)
  ops, ticks        \* calls and day changes used up (bounds of the model)

ledger == <<userProfile, transactions, fixedExpenses, activeGoals, activeLoans,
            chatStore, groupMembers, monthlyLimit, dailySpent>>
store == <<remote, inflight, timers, bareTimers, lastWrite>>
clock == <<now, daysInMonth, ticks>>
analysis == <<currentFilter, sentimentTotals>>
page == <<currentChatId, renderTimers, tempMembers>>
vars == <<script, now, daysInMonth, uid, authPc, remote, inflight, timers,
          bareTimers, lastWrite,
          userData, preData, userProfile, transactions, fixedExpenses,
          activeGoals, activeLoans, chatStore, groupMembers, monthlyLimit,
          dailySpent, safeSpendAmount, heatmap, currentFilter, sentimentTotals,
          currentChatId, renderTimers, tempMembers, tzOffset, toast, thrown, ops,
          ticks>>

NoUid == ""
NoWrite == [op |-> "none", retry |-> FALSE, ok |-> TRUE]
Unset == [k |-> "unset", v |-> 0]

\* window.userData as a document. Every array or map field of window.userData
\* is, whenever it is set, the very object the corresponding variable of the
\* script refers to (saveState assigns the variables to the fields, the
\* firestore-ready handler assigns the fields to the variables), so the
\* fields it has carry the variables' current values.
UserDataDoc(ud, tx, fx, gl, ln, cs, gm) ==
  [ud EXCEPT !.transactions = IF "transactions" \in ud.has THEN tx ELSE <<>>,
             !.fixedExpenses = IF "fixedExpenses" \in ud.has THEN fx ELSE <<>>,
             !.goals = IF "goals" \in ud.has THEN gl ELSE <<>>,
             !.loans = IF "loans" \in ud.has THEN ln ELSE <<>>,
             !.chatGroups = IF "chatGroups" \in ud.has THEN cs ELSE EmptyMap,
             !.groupMembers = IF "groupMembers" \in ud.has THEN gm ELSE EmptyMap]

curUserData ==
  UserDataDoc(userData, transactions, fixedExpenses, activeGoals, activeLoans,
              chatStore, groupMembers)

-----------------------------------------------------------------------------
(* Derivation engine *)

RECURSIVE SumDaily(_)
\* 0 + s[1].daily + ... + s[n].daily with JavaScript's +
SumDaily(s) ==
  IF s = <<>> THEN Num(0)
  ELSE JsAdd(SumDaily(SubSeq(s, 1, Len(s) - 1)), s[Len(s)].daily)

RECURSIVE SumFixed(_)
\* 0 + s[1].amount + ... + s[n].amount
SumFixed(s) ==
  IF s = <<>> THEN 0 ELSE SumFixed(SubSeq(s, 1, Len(s) - 1)) + s[Len(s)].amount

\* variant: every loan is deducted, whatever its type
IsAnyLoan(l) == l.type \in {"borrow", "lend"}

IsBorrow(l) == l.type = "borrow"

\* updateDateTracker(): days left in the month, 1 when none is left
updateDateTracker(t, dim) ==
  LET daysLeft == dim - getDate(t) IN IF daysLeft = 0 THEN 1 ELSE daysLeft

\* the divisor of the daily base: src/backend/dashboard.js divides by the
\* days remaining, the other copy by the days of the month
dailyDivisor(sc, t, dim) ==
  IF sc = "backend" THEN updateDateTracker(t, dim) ELSE dim

\* recalculateDashboard(): the text put in #safeSpendAmount
recalculateDashboard(sc, t, dim, limit, fx, ln, gl, spent) ==
  LET totalFixed == SumFixed(fx)
      disposable == limit - totalFixed
      dailyBase == disposable \div dailyDivisor(sc, t, dim)
      dailyDebt == SumDaily(SelectSeq(ln, IsBorrow))
      dailyGoal == SumDaily(gl)
  IN JsMax0(JsSub(JsSub(JsSub(Num(dailyBase), dailyDebt), dailyGoal), Num(spent)))

\* a timestamp of the month the page is shown in
inCurrentMonth(ts, dim) == ts >= 0 /\ ts < dim * oneDayMs

RECURSIVE spendingMap(_, _, _)
\* renderHeatmap(): spendingMap[day] || 0, where every transaction tx of the
\* current month adds (tx.amount || 0) to the entry of its day
spendingMap(tx, day, dim) ==
  IF tx = <<>> THEN 0
  ELSE LET rest == spendingMap(Tail(tx), day, dim)
           t == Head(tx)
       IN IF inCurrentMonth(t.timestamp, dim) /\ getDate(t.timestamp) = day
            THEN rest + (IF IsFinite(t.amount) THEN t.amount.v ELSE 0)
            ELSE rest

\* variant: the two upper thresholds give the colours of each other
heatmapTierExchanged(sc, spent, limit, fixed, dim) ==
  IF spent >= 2000 THEN 2 ELSE IF spent >= 500 THEN 3
  ELSE IF spent > 0 THEN 1 ELSE 0

RECURSIVE pow2(_)
pow2(k) == IF k = 0 THEN 1 ELSE 2 * pow2(k - 1)

RECURSIVE pow2mod(_, _)
\* 2^k modulo n
pow2mod(k, n) == IF k = 0 THEN 1 % n ELSE (2 * pow2mod(k - 1, n)) % n

RECURSIVE binade(_, _, _)
\* the least k, from the given one on, with num / den < 2^k
binade(num, den, k) ==
  IF num < den * pow2(k) THEN k ELSE binade(num, den, k + 1)

\* spent <= safeDailyLimit * 1.2 as the doubles of JavaScript decide it when
\* spent is exactly 1.2 * budget / dim, with safeDailyLimit = budget / dim.
\* The quotient is rounded to 53 bits: with budget / dim in [2^(k-1), 2^k) the
\* remainder left by the rounding is t = budget * 2^(53-k) mod dim, and the
\* quotient is exact (t = 0), rounded up (2t > dim) or rounded down by t parts
\* in budget * 2^(53-k). The double 1.2 is 1.2 * (1 - 1/(6 * 2^52)). The
\* product is rounded to the nearest double, which is spent unless the product
\* is more than half a step below it; the step below spent is gap / 2^53,
\* gap being the power of two above spent, or spent itself when a power of two.
\* Rounded down, the product is (1 - t/(budget * 2^(53-k))) * (1 - 1/(6 * 2^52))
\* * spent, which is within half a step of spent exactly when
\* 72 * t * 2^k <= 10 * dim * (3 * gap - 2 * spent)
yellowAtEdge(spent, budget, dim) ==
  LET k == binade(budget, dim, 0)
      t == ((budget % dim) * pow2mod(53 - k, dim)) % dim
      ks == binade(spent, 1, 0)
      gap == IF spent = pow2(ks - 1) THEN pow2(ks - 1) ELSE pow2(ks)
  IN \/ 2 * t >= dim
     \/ 72 * t * pow2(k) <= 10 * dim * (3 * gap - 2 * spent)

\* the colour of a day's cell, as the rank of its tier: 0 is the colourless
\* cell. src/backend/dashboard.js: 1 accent (amount > 0), 2 warning
\* (amount >= 500), 3 danger (amount >= 2000). The other copy: 1 green
\* (spent <= safeDailyLimit), 2 yellow (spent <= safeDailyLimit * 1.2), 3 red,
\* with safeDailyLimit = (limit - fixed) / daysInMonth in doubles. Away from
\* the edge of a tier the rounding of the doubles is far smaller than the
\* distance to the edge (at least 1 / (5 * daysInMonth)), so both sides are
\* compared after multiplying by daysInMonth; on the edge of green the
\* quotient is the integer spent itself; on the edge of yellow the rounding
\* decides
heatmapTier(sc, spent, limit, fixed, dim) ==
  IF sc = "backend"
    THEN (IF spent >= 2000 THEN 3 ELSE IF spent >= 500 THEN 2
          ELSE IF spent > 0 THEN 1 ELSE 0)
    ELSE (IF spent > 0
            THEN (IF spent * dim <= limit - fixed THEN 1
                  ELSE IF spent * dim * 10 < (limit - fixed) * 12 THEN 2
                  ELSE IF /\ spent * dim * 10 = (limit - fixed) * 12
                          /\ yellowAtEdge(spent, limit - fixed, dim) THEN 2
                  ELSE 3)
            ELSE 0)

\* renderHeatmap(): the cells of the days of the month, each with the rank
\* of its colour and the amount its title and its onclick handler show.
\* src/backend/dashboard.js reads the script's transactions; the other copy
\* reads window.userData (ud): monthlyLimit || 0, fixedExpenses || [],
\* transactions || []
renderHeatmap(sc, ud, tx, dim) ==
  LET limit == IF "monthlyLimit" \in ud.has THEN ud.monthlyLimit ELSE 0
      fixed == SumFixed(ud.fixedExpenses)
      shown == IF sc = "backend" THEN tx ELSE ud.transactions
  IN [day \in 1..dim |->
        LET spent == spendingMap(shown, day, dim)
        IN [tier |-> heatmapTier(sc, spent, limit, fixed, dim), amount |-> spent]]

\* getFilteredTransactions(): the transactions made less than a day, 7 days or
\* 30 days before t; every transaction for any other filter
getFilteredTransactions(tx, filter, t) ==
  SelectSeq(tx, LAMBDA x :
    LET diff == t - x.timestamp IN
    CASE filter = "day" -> diff < oneDayMs
      [] filter = "week" -> diff < oneDayMs * 7
      [] filter = "month" -> diff < oneDayMs * 30
      [] OTHER -> TRUE)

\* variant: only a transaction tagged "ignore" is counted as one
sentimentBucketByName(tag) ==
  IF tag \in {"worthy", "regret", "ignore"} THEN tag ELSE "none"

\* updateSentimentAnalysis(): the total a transaction of the given tag is
\* added to
sentimentBucket(tag) ==
  IF tag = "worthy" THEN "worthy" ELSE IF tag = "regret" THEN "regret" ELSE "ignore"

RECURSIVE bucketTotal(_, _)
\* the sum of (tx.amount || 0) over the transactions of a bucket
bucketTotal(tx, bucket) ==
  IF tx = <<>> THEN 0
  ELSE LET t == Head(tx) IN
       bucketTotal(Tail(tx), bucket)
         + (IF sentimentBucket(t.sentiment) = bucket /\ IsFinite(t.amount)
              THEN t.amount.v ELSE 0)

\* updateSentimentAnalysis(): the totals shown for the filtered transactions
updateSentimentAnalysis(tx, filter, t) ==
  LET filteredTx == getFilteredTransactions(tx, filter, t)
      worthy == bucketTotal(filteredTx, "worthy")
      regret == bucketTotal(filteredTx, "regret")
      ignore == bucketTotal(filteredTx, "ignore")
  IN [worthy |-> worthy, regret |-> regret, ignore |-> ignore,
      total |-> worthy + regret + ignore]

-----------------------------------------------------------------------------
(* Initial state: the page has loaded both scripts, nobody is signed in yet *)

Scripts == {"backend", "dashboard"}

\* the time zones of the browser: UTC, UTC+05:30 and UTC-04:00
Zones == {0, 19800, 0 - 14400}

SessionMonths == {30}

\* noon of the last day but one of the month
startOf(dim) == (dim - 2) * oneDayMs + (oneDayMs \div 2)

NoDoc == [exists |-> FALSE, doc |-> EmptyDoc]

RoommatesOnly == [keys |-> {"Roommates"}, at |-> [g \in GroupNames |-> <<>>]]

\* the document of a returning user, as an earlier session left it: one
\* transaction made earlier on the day the session starts
returningDoc(dim) ==
  [EmptyDoc EXCEPT
     !.has = Fields, !.name = "Asha", !.avatar = defaultAvatar,
     !.email = "asha@example.org", !.createdAt = 0 - oneDayMs,
     !.monthlyLimit = 30000,
     !.transactions = << [timestamp |-> startOf(dim) - 1000, merchant |-> "Cafe",
                          amount |-> Num(100), sentiment |-> "worthy"] >>,
     !.fixedExpenses = << [name |-> "Rent", amount |-> 15000] >>,
     !.chatGroups = RoommatesOnly, !.groupMembers = RoommatesOnly]

\* a document written before the ledger fields existed
legacyDoc ==
  [EmptyDoc EXCEPT !.has = {"name", "email", "createdAt"}, !.name = "Asha",
                   !.email = "asha@example.org", !.createdAt = 0 - oneDayMs]

InitialRemotes(dim) ==
  {NoDoc, [exists |-> TRUE, doc |-> returningDoc(dim)],
   [exists |-> TRUE, doc |-> legacyDoc]}

Init ==
  /\ script \in Scripts
  /\ daysInMonth \in SessionMonths
  /\ now = startOf(daysInMonth)
  /\ uid = NoUid
  /\ authPc = "idle"
  /\ remote \in InitialRemotes(daysInMonth)
  /\ inflight = <<>>
  /\ timers = 0
  /\ bareTimers = 0
  /\ lastWrite = NoWrite
  /\ userData = EmptyDoc
  /\ preData = EmptyDoc
  /\ userProfile = [name |-> "", phone |-> "", avatar |-> "", tempAvatar |-> ""]
  /\ transactions = <<>>
  /\ fixedExpenses = <<>>
  /\ activeGoals = <<>>
  /\ activeLoans = <<>>
  /\ chatStore = EmptyMap
  /\ groupMembers = EmptyMap
  /\ monthlyLimit = (IF script = "backend" THEN 30000 ELSE 0)
  /\ dailySpent = 0
  /\ safeSpendAmount = Unset
  /\ heatmap = <<>>
  /\ currentFilter = "month"
  /\ sentimentTotals = Unset
  /\ currentChatId = "Roommates"
  /\ renderTimers = 0
  /\ tempMembers = <<>>
  /\ tzOffset \in Zones
  /\ toast = ""
  /\ thrown = ""
  /\ ops = 0
  /\ ticks = 0

-----------------------------------------------------------------------------
(* Persistence synchroniser *)

\* a || b for strings
OrStr(a, b) == IF a # "" THEN a ELSE b

\* saveState(): the scalar fields of window.userData and the fields it has
\* after the copy of the script's variables into it
savedUserData(sc, ud, prof, limit) ==
  [ud EXCEPT
     !.name = OrStr(prof.name, OrStr(ud.name, "User")),
     !.phone = OrStr(prof.phone, ud.phone),
     !.avatar = OrStr(prof.avatar, ud.avatar),
     !.monthlyLimit = IF sc = "dashboard" THEN limit ELSE ud.monthlyLimit,
     !.has = ud.has \cup {"name", "phone", "avatar"} \cup ListFields \cup MapFields
                    \cup (IF sc = "dashboard" THEN {"monthlyLimit"} ELSE {})]

\* The remote store is not part of the repository: what it does with a write
\* follows the documented merge write, which updates only the supplied
\* fields and leaves the other remote fields intact.
\* setDoc(ref, data, {merge: true}) on the stored document: the fields of data
\* replace the stored ones, a map field is merged key by key, every other
\* stored field stays. A map written empty has no key to merge: the field
\* itself is written, and the stored map becomes the empty one
mergeMap(old, new) ==
  IF new.keys = {} THEN EmptyMap
  ELSE [keys |-> old.keys \cup new.keys,
        at |-> [g \in GroupNames |->
                  IF g \in new.keys THEN new.at[g] ELSE old.at[g]]]

mergeDoc(old, data) ==
  [has |-> old.has \cup data.has,
   name |-> IF "name" \in data.has THEN data.name ELSE old.name,
   phone |-> IF "phone" \in data.has THEN data.phone ELSE old.phone,
   avatar |-> IF "avatar" \in data.has THEN data.avatar ELSE old.avatar,
   email |-> IF "email" \in data.has THEN data.email ELSE old.email,
   createdAt |-> IF "createdAt" \in data.has THEN data.createdAt ELSE old.createdAt,
   monthlyLimit |-> IF "monthlyLimit" \in data.has THEN data.monthlyLimit
                    ELSE old.monthlyLimit,
   transactions |-> IF "transactions" \in data.has THEN data.transactions
                    ELSE old.transactions,
   fixedExpenses |-> IF "fixedExpenses" \in data.has THEN data.fixedExpenses
                     ELSE old.fixedExpenses,
   goals |-> IF "goals" \in data.has THEN data.goals ELSE old.goals,
   loans |-> IF "loans" \in data.has THEN data.loans ELSE old.loans,
   chatGroups |-> IF "chatGroups" \in data.has
                  THEN mergeMap(old.chatGroups, data.chatGroups) ELSE old.chatGroups,
   groupMembers |-> IF "groupMembers" \in data.has
                    THEN mergeMap(old.groupMembers, data.groupMembers)
                    ELSE old.groupMembers]

\* the stored document after a write: loadUserDoc's setDoc(ref, newUser)
\* replaces it, syncUserData's setDoc(userRef, dataToSave, {merge: true})
\* merges into it
applyWrite(r, w) ==
  IF w.op = "set" THEN [exists |-> TRUE, doc |-> w.data]
  ELSE [exists |-> TRUE, doc |-> mergeDoc(r.doc, w.data)]

\* a setDoc call: op is "set" for setDoc(ref, data) and "merge" for
\* setDoc(ref, data, {merge: true}); retry says that a retry timer issued it
Write(op, data, retry) == [op |-> op, data |-> data, retry |-> retry]

\* the completion of a setDoc call: its promise resolved (ok) or rejected
Completed(w, ok) == [op |-> w.op, retry |-> w.retry, ok |-> ok]

\* variant: a new commit cancels the commits still in flight
syncUserDataCancelling(data, given) ==
  IF uid = NoUid
    THEN /\ timers < MaxTimers
         /\ timers' = timers + 1
         /\ bareTimers' = bareTimers + (IF given THEN 0 ELSE 1)
         /\ UNCHANGED <<inflight, lastWrite>>
    ELSE /\ inflight' = << Write("merge", data, FALSE) >>
         /\ UNCHANGED <<timers, bareTimers, lastWrite>>

\* window.syncUserData(data): without a uid it arms the 300 ms retry, whose
\* closure keeps the argument of the call, and writes nothing; with a uid it
\* issues the merge write of data || window.userData. given says that the
\* call had an argument: the annotated copy's saveState passes
\* window.userData, the backend copy's saveState and a call of
\* window.syncUserData() by itself pass nothing
syncUserData(data, given) ==
  IF uid = NoUid
    THEN /\ timers < MaxTimers
         /\ timers' = timers + 1
         /\ bareTimers' = bareTimers + (IF given THEN 0 ELSE 1)
         /\ UNCHANGED <<inflight, lastWrite>>
    ELSE /\ Len(inflight) < MaxInflight
         /\ inflight' = Append(inflight, Write("merge", data, FALSE))
         /\ UNCHANGED <<timers, bareTimers, lastWrite>>

\* saveState(), run after the handler has changed the script's variables
saveState ==
  /\ userData' = savedUserData(script, userData, userProfile', monthlyLimit')
  /\ syncUserData(UserDataDoc(userData', transactions', fixedExpenses',
                              activeGoals', activeLoans', chatStore', groupMembers'),
                  script = "dashboard")

-----------------------------------------------------------------------------
(* Sign-in, document load and hydration (onAuthStateChanged, loadUserDoc and *)
(* the firestore-ready handler)                                             *)

\* if (!m["Roommates"]) m["Roommates"] = []
withRoommates(m) == [m EXCEPT !.keys = m.keys \cup {"Roommates"}]

\* monthlyLimit after the firestore-ready handler: only the annotated copy
\* reads it from the document
hydratedLimit(sc, data, limit) ==
  IF sc = "dashboard"
    THEN (IF "monthlyLimit" \in data.has THEN data.monthlyLimit ELSE 0)
    ELSE limit

\* window.userData = data; dispatchEvent("firestore-ready"): the handler
\* copies the document into the script's variables and runs initApp()
hydrate(data) ==
  /\ preData' = curUserData
  /\ userData' = data
  /\ userProfile' = [name |-> OrStr(data.name, "User"), phone |-> data.phone,
                     avatar |-> OrStr(data.avatar, defaultAvatar),
                     tempAvatar |-> ""]
  /\ transactions' = data.transactions
  /\ fixedExpenses' = data.fixedExpenses
  /\ activeGoals' = data.goals
  /\ activeLoans' = data.loans
  /\ chatStore' = withRoommates(data.chatGroups)
  /\ groupMembers' = withRoommates(data.groupMembers)
  /\ monthlyLimit' = hydratedLimit(script, data, monthlyLimit)
  /\ dailySpent' = dailySpent
  /\ safeSpendAmount' =
       recalculateDashboard(script, now, daysInMonth, monthlyLimit', fixedExpenses',
                            activeLoans', activeGoals', dailySpent')
  /\ heatmap' =
       renderHeatmap(script,
                     UserDataDoc(data, transactions', fixedExpenses', activeGoals',
                                 activeLoans', chatStore', groupMembers'),
                     transactions', daysInMonth)
  /\ authPc' = "ready"

\* variant: the ready signal is dispatched as soon as the identity is set,
\* before the document is loaded
AuthStateChangedSignalsAtOnce ==
  /\ authPc = "idle"
  /\ uid' = "u1"
  /\ hydrate(curUserData)
  /\ UNCHANGED <<script, tzOffset, page, analysis, clock, store, toast, thrown, ops>>

\* onAuthStateChanged fires with a user: window._uid = user.uid, then the
\* callback waits for getDoc
AuthStateChanged ==
  /\ authPc = "idle"
  /\ uid' = "u1"
  /\ authPc' = "getDoc"
  /\ UNCHANGED <<script, tzOffset, page, analysis, clock, store, userData, preData, ledger,
                 safeSpendAmount, heatmap,
                 toast, thrown, ops>>

\* getDoc returns an existing document: loadUserDoc returns snap.data() and
\* the callback hydrates from it
GetDocFound ==
  /\ authPc = "getDoc"
  /\ remote.exists
  /\ hydrate(remote.doc)
  /\ UNCHANGED <<script, tzOffset, page, analysis, clock, uid, store, toast, thrown, ops>>

\* getDoc finds no document: loadUserDoc issues setDoc(ref, newUser) and waits
GetDocMissing ==
  /\ authPc = "getDoc"
  /\ ~remote.exists
  /\ inflight' = Append(inflight, Write("set", newUser(now), FALSE))
  /\ authPc' = "creating"
  /\ UNCHANGED <<script, tzOffset, page, analysis,
                 clock, uid, remote, timers, bareTimers, lastWrite, userData,
                 preData, ledger, safeSpendAmount, heatmap,
                 toast, thrown, ops>>

RemoveAt(q, i) == SubSeq(q, 1, i - 1) \o SubSeq(q, i + 1, Len(q))

\* a write reaches the store and its promise resolves; the resolution of
\* loadUserDoc's write lets the callback go on to hydrate from newUser. The
\* store gives no order between the writes in flight: any of them may be
\* the next one it applies
WriteLands ==
  \E i \in 1..Len(inflight) :
    /\ remote' = applyWrite(remote, inflight[i])
    /\ inflight' = RemoveAt(inflight, i)
    /\ IF inflight[i].op = "set"
         THEN hydrate(inflight[i].data)
         ELSE UNCHANGED <<authPc, userData, preData, ledger, safeSpendAmount,
                          heatmap>>
    /\ lastWrite' = Completed(inflight[i], TRUE)
    /\ UNCHANGED <<script, tzOffset, page, analysis, clock, uid, timers, bareTimers, toast, thrown, ops>>

\* variant: a rejected write rolls the ledger back to the stored document
WriteFailsRollsBack ==
  \E i \in 1..Len(inflight) :
    /\ inflight' = RemoveAt(inflight, i)
    /\ lastWrite' = Completed(inflight[i], FALSE)
    /\ transactions' = remote.doc.transactions
    /\ fixedExpenses' = remote.doc.fixedExpenses
    /\ activeGoals' = remote.doc.goals
    /\ activeLoans' = remote.doc.loans
    /\ UNCHANGED <<script, tzOffset, page, analysis,
                   clock, uid, authPc, remote, timers, bareTimers, userData, preData,
                   userProfile, chatStore, groupMembers, monthlyLimit, dailySpent,
                   safeSpendAmount, heatmap,
                 toast, thrown, ops>>

\* a write is rejected: saveState's catch logs it (or, for a retried call and
\* for loadUserDoc, nothing catches it); nothing is written and nothing is
\* issued again
WriteFails ==
  \E i \in 1..Len(inflight) :
    /\ inflight' = RemoveAt(inflight, i)
    /\ authPc' = (IF inflight[i].op = "set" THEN "failed" ELSE authPc)
    /\ lastWrite' = Completed(inflight[i], FALSE)
    /\ UNCHANGED <<script, tzOffset, page, analysis,
                   clock, uid, remote, timers, bareTimers, userData, preData, ledger,
                   safeSpendAmount, heatmap,
                 toast, thrown, ops>>

\* the data a retry writes, data || window.userData: a closure that holds
\* the window.userData object saveState passed writes that object, which is
\* the ledger as it was before hydration once hydration has replaced
\* window.userData; a closure that holds nothing (bare) writes the
\* window.userData of the moment the timer fires
retryData(bare) ==
  IF ~bare /\ authPc = "ready" THEN preData ELSE curUserData

\* a retry timer fires: syncUserData(data) runs again with the data of the
\* closure, and without a uid arms the same retry once more
RetryTimer ==
  \E bare \in BOOLEAN :
    /\ IF bare THEN bareTimers > 0 ELSE timers > bareTimers
    /\ IF uid = NoUid
         THEN UNCHANGED <<timers, bareTimers, inflight>>
         ELSE /\ timers' = timers - 1
              /\ bareTimers' = bareTimers - (IF bare THEN 1 ELSE 0)
              /\ inflight' = Append(inflight, Write("merge", retryData(bare), TRUE))
    /\ UNCHANGED <<script, tzOffset, page, analysis,
                   clock, uid, authPc, remote, lastWrite, userData,
                   preData, ledger, safeSpendAmount, heatmap,
                   toast, thrown, ops>>

\* midnight passes
Tick ==
  /\ ticks < MaxTicks
  /\ getDate(now) < daysInMonth
  /\ ticks' = ticks + 1
  /\ now' = (dateOf(now) + 1) * oneDayMs
  /\ UNCHANGED <<script, tzOffset, page, analysis,
                 daysInMonth, uid, authPc, store, userData, preData,
                 ledger, safeSpendAmount, heatmap,
                 toast, thrown, ops>>

-----------------------------------------------------------------------------
(* Ledger store: the handlers the page calls *)

\* what no handler touches
frame == <<script, tzOffset, daysInMonth, ticks, uid, authPc, remote, preData>>

\* a function of the page runs: one call of the budget, and the clock moves on
called ==
  /\ ops < MaxOps
  /\ ops' = ops + 1
  /\ now' = now + 1
  /\ UNCHANGED frame

\* a call that shows no toast and throws nothing
silent == called /\ toast' = "" /\ thrown' = ""

\* a handler that returns early or throws: nothing changes but what the user
\* is told
rejected(msg, err) ==
  /\ called
  /\ toast' = msg
  /\ thrown' = err
  /\ UNCHANGED <<analysis, page, inflight, timers, bareTimers, lastWrite, userData, ledger,
                 safeSpendAmount, heatmap>>

\* a handler that goes through to saveState()
accepted(msg) ==
  /\ called
  /\ toast' = msg
  /\ thrown' = ""
  /\ UNCHANGED <<analysis, page>>

\* the figure recalculateDashboard() shows for the new values of the variables
recalculated ==
  safeSpendAmount' =
    recalculateDashboard(script, now, daysInMonth, monthlyLimit', fixedExpenses',
                         activeLoans', activeGoals', dailySpent')

\* the cells renderHeatmap() draws for the new values of the variables, when
\* window.userData has the scalar fields of ud
rendered(ud) ==
  heatmap' =
    renderHeatmap(script,
                  UserDataDoc(ud, transactions', fixedExpenses', activeGoals',
                              activeLoans', chatStore', groupMembers'),
                  transactions', daysInMonth)

Merchants == {"", "Cafe"}
TxAmounts == {"", "0", "-5", "100"}
Sentiments == {"worthy"}

\* variant: the new transaction is put at the end of the list
saveTransactionAtEnd(merchant, amtText, sentiment) ==
  LET amount == parseInt(amtText) IN
  IF merchant = "" \/ Falsy(amount)
    THEN rejected("Please enter valid expense details", "")
    ELSE /\ accepted("Spent")
         /\ dailySpent' = dailySpent + amount.v
         /\ transactions' =
              transactions \o
              << [timestamp |-> now, merchant |-> merchant, amount |-> amount,
                  sentiment |-> sentiment] >>
         /\ UNCHANGED <<userProfile, fixedExpenses, activeGoals, activeLoans,
                        chatStore, groupMembers, monthlyLimit>>
         /\ recalculated
         /\ rendered(userData)
         /\ saveState

\* window.saveTransaction
saveTransaction(merchant, amtText, sentiment) ==
  LET amount == parseInt(amtText) IN
  IF merchant = "" \/ Falsy(amount)
    THEN rejected("Please enter valid expense details", "")
    ELSE /\ accepted("Spent")
         /\ dailySpent' = dailySpent + amount.v
         /\ transactions' =
              << [timestamp |-> now, merchant |-> merchant, amount |-> amount,
                  sentiment |-> sentiment] >> \o transactions
         /\ UNCHANGED <<userProfile, fixedExpenses, activeGoals, activeLoans,
                        chatStore, groupMembers, monthlyLimit>>
         /\ recalculated
         /\ rendered(userData)
         /\ saveState

QuickAmounts == {"", "100"}

\* addQuickExpense (the annotated copy only)
addQuickExpense(nameText, amtText) ==
  /\ script = "dashboard"
  /\ IF nameText = "" \/ amtText = ""
       THEN rejected("Please enter item and amount!", "")
       ELSE IF "transactions" \notin userData.has
         THEN \* window.userData.transactions is undefined
              rejected("", "TypeError")
         ELSE /\ accepted("Added")
              /\ transactions' =
                   << [timestamp |-> now, merchant |-> nameText,
                       amount |-> parseInt(amtText), sentiment |-> "neutral"] >>
                   \o transactions
              /\ UNCHANGED <<userProfile, fixedExpenses, activeGoals, activeLoans,
                             chatStore, groupMembers, monthlyLimit, dailySpent,
                             safeSpendAmount>>
              /\ rendered(userData)
              /\ saveState

FixedNames == {"", "Internet"}
FixedAmounts == {"", "0", "-5", "1000"}

\* window.addFixedExpense
addFixedExpense(name, amtText) ==
  LET amount == parseInt(amtText) IN
  IF name # "" /\ JsPositive(amount)
    THEN /\ accepted("")
         /\ fixedExpenses' = Append(fixedExpenses, [name |-> name, amount |-> amount.v])
         /\ UNCHANGED <<userProfile, transactions, activeGoals, activeLoans,
                        chatStore, groupMembers, monthlyLimit, dailySpent,
                        safeSpendAmount, heatmap>>
         /\ saveState
    ELSE rejected("", "")

\* Array#splice(index, 1): a missing index is 0, a negative one counts from
\* the end
splice1(s, arg) ==
  LET rel == IF arg.given THEN arg.i ELSE 0
      start == IF rel < 0 THEN (IF Len(s) + rel < 0 THEN 0 ELSE Len(s) + rel)
               ELSE (IF rel > Len(s) THEN Len(s) ELSE rel)
  IN RemoveAt(s, start + 1)

RemoveArgs ==
  {[given |-> TRUE, i |-> k] : k \in {0 - 1, 0, 5}} \cup {[given |-> FALSE, i |-> 0]}

\* window.removeFixedExpense
removeFixedExpense(arg) ==
  /\ accepted("")
  /\ fixedExpenses' = splice1(fixedExpenses, arg)
  /\ UNCHANGED <<userProfile, transactions, activeGoals, activeLoans, chatStore,
                 groupMembers, monthlyLimit, dailySpent, safeSpendAmount, heatmap>>
  /\ saveState

\* variant: Math.floor in place of Math.ceil
JsFloorDivBy(x, n) ==
  IF x.k = "num" THEN Num(x.v \div n) ELSE x

\* Math.ceil(x / n) for a positive integer n
JsCeilDiv(x, n) ==
  IF x.k = "num" THEN Num(0 - ((0 - x.v) \div n)) ELSE x

\* the date typed in #goalDate: none, or a day counted from the day of the call
NoDate == [given |-> FALSE, ahead |-> 0]
InDays(n) == [given |-> TRUE, ahead |-> n]
\* name, amount and date entered in the goal form
GoalInputs == {<<"Laptop", "1000", InDays(3)>>, <<"Laptop", "1000", InDays(0)>>,
               <<"Laptop", "0", InDays(3)>>, <<"", "1000", InDays(3)>>,
               <<"Laptop", "", InDays(3)>>, <<"Laptop", "1000", NoDate>>,
               <<"Laptop", "1000", InDays(0 - 3)>>}

\* new Date(dateInput.value): the text of a date is read as midnight UTC of
\* that day, which is tz seconds after the local midnight (deadline) of it
targetDate(deadline, tz) == deadline + tz

\* Math.ceil(Math.abs(targetDate - today) / oneDayMs) || 1
diffDaysOf(target, t) ==
  LET diffTime == IF target >= t THEN target - t ELSE t - target
      days == 0 - ((0 - diffTime) \div oneDayMs)
  IN IF days = 0 THEN 1 ELSE days

\* window.saveGoal
saveGoal(name, amtText, date) ==
  IF name = "" \/ amtText = "" \/ ~date.given
    THEN rejected("Please fill all details", "")
    ELSE LET target == (dateOf(now) + date.ahead) * oneDayMs
             diffDays == diffDaysOf(targetDate(target, tzOffset), now)
         IN /\ accepted("Goal Set! Budget Adjusted.")
            /\ activeGoals' =
                 Append(activeGoals,
                        [id |-> now, name |-> name, amount |-> parseInt(amtText),
                         deadline |-> target,
                         daily |-> JsCeilDiv(parseInt(amtText), diffDays),
                         daysLeft |-> diffDays])
            /\ UNCHANGED <<userProfile, transactions, fixedExpenses, activeLoans,
                           chatStore, groupMembers, monthlyLimit, dailySpent, heatmap>>
            /\ recalculated
            /\ saveState

\* window.removeGoal
removeGoal(id) ==
  /\ accepted("Goal removed")
  /\ activeGoals' = SelectSeq(activeGoals, LAMBDA g : g.id # id)
  /\ UNCHANGED <<userProfile, transactions, fixedExpenses, activeLoans, chatStore,
                 groupMembers, monthlyLimit, dailySpent, heatmap>>
  /\ recalculated
  /\ saveState

\* type, amount and duration entered in the loan form
LoanInputs == {<<"borrow", "10000", "50">>, <<"borrow", "10000", "0">>,
               <<"borrow", "", "50">>, <<"lend", "10000", "50">>,
               <<"lend", "", "50">>}

\* window.saveLoan
saveLoan(type, person, amtText, durText) ==
  /\ accepted("Record Added!")
  /\ activeLoans' =
       Append(activeLoans,
              [id |-> now, type |-> type, person |-> person,
               amount |-> parseInt(amtText), duration |-> parseInt(durText),
               daily |-> JsFloorDiv(parseInt(amtText), parseInt(durText))])
  /\ UNCHANGED <<userProfile, transactions, fixedExpenses, activeGoals, chatStore,
                 groupMembers, monthlyLimit, dailySpent, heatmap>>
  /\ recalculated
  /\ saveState

LimitTexts == {"", "0", "-5", "15000"}

\* window.saveBudgetSettings: parseInt(limitEl.value) || monthlyLimit
saveBudgetSettings(limitText) ==
  LET v == parseInt(limitText) IN
  /\ accepted("Budget Updated!")
  /\ monthlyLimit' = (IF Falsy(v) THEN monthlyLimit ELSE v.v)
  /\ UNCHANGED <<userProfile, transactions, fixedExpenses, activeGoals, activeLoans,
                 chatStore, groupMembers, dailySpent, heatmap>>
  /\ recalculated
  /\ saveState

\* name and phone entered in the profile form
ProfileInputs == {<<"", "">>, <<"Asha K", "+91 98765 43210">>}

AvatarSeeds == {"k3x9q"}

\* window.randomizeAvatar: the avatar of a random seed is kept in
\* userProfile.tempAvatar until the profile is saved
randomizeAvatar(seed) ==
  /\ silent
  /\ userProfile' =
       [userProfile EXCEPT
          !.tempAvatar = "https://api.dicebear.com/7.x/avataaars/svg?seed=" \o seed]
  /\ UNCHANGED <<analysis, page, inflight, timers, bareTimers, lastWrite, userData,
                 transactions, fixedExpenses, activeGoals, activeLoans, chatStore,
                 groupMembers, monthlyLimit, dailySpent, safeSpendAmount, heatmap>>

\* window.saveProfile
saveProfile(name, phone) ==
  /\ accepted("Profile Updated!")
  /\ userProfile' = [name |-> OrStr(name, userProfile.name),
                     phone |-> OrStr(phone, userProfile.phone),
                     avatar |-> OrStr(userProfile.tempAvatar, userProfile.avatar),
                     tempAvatar |-> ""]
  /\ UNCHANGED <<transactions, fixedExpenses, activeGoals, activeLoans, chatStore,
                 groupMembers, monthlyLimit, dailySpent, safeSpendAmount, heatmap>>
  /\ saveState

\* window.switchGroup(chatId)
switchGroup(chatId) ==
  /\ silent
  /\ currentChatId' = chatId
  /\ UNCHANGED <<analysis, renderTimers, tempMembers, inflight, timers, bareTimers, lastWrite,
                 userData,
                 ledger, safeSpendAmount, heatmap>>

\* chatStore[currentChatId].push(msg), the array created when missing
pushMessage(cs, g, msg) ==
  [keys |-> cs.keys \cup {g}, at |-> [cs.at EXCEPT ![g] = Append(@, msg)]]

ChatTexts == {"", "hi"}

\* window.sendSquadChat
sendSquadChat(text) ==
  IF text = ""
    THEN rejected("", "")
    ELSE /\ accepted("")
         /\ chatStore' =
              pushMessage(chatStore, currentChatId,
                          [type |-> "text", text |-> text, item |-> "", amount |-> "",
                           timestamp |-> now])
         /\ UNCHANGED <<userProfile, transactions, fixedExpenses, activeGoals,
                        activeLoans, groupMembers, monthlyLimit, dailySpent,
                        safeSpendAmount, heatmap>>
         /\ saveState

\* window.sendChat: the message of the chat box #chatInput has no type
sendChat(text) ==
  IF text = ""
    THEN rejected("", "")
    ELSE /\ accepted("")
         /\ chatStore' =
              pushMessage(chatStore, currentChatId,
                          [type |-> "", text |-> text, item |-> "", amount |-> "",
                           timestamp |-> now])
         /\ UNCHANGED <<userProfile, transactions, fixedExpenses, activeGoals,
                        activeLoans, groupMembers, monthlyLimit, dailySpent,
                        safeSpendAmount, heatmap>>
         /\ saveState

SplitItems == {"Pizza"}
SplitAmounts == {"", "100"}

\* window.submitSplit
submitSplit(item, amtText) ==
  /\ accepted(IF Len(groupMembers.at[currentChatId]) > 0
                THEN "Request sent to members" ELSE "Split Request Posted!")
  /\ chatStore' =
       pushMessage(chatStore, currentChatId,
                   [type |-> "split", text |-> "", item |-> item, amount |-> amtText,
                    timestamp |-> now])
  /\ UNCHANGED <<userProfile, transactions, fixedExpenses, activeGoals, activeLoans,
                 groupMembers, monthlyLimit, dailySpent, safeSpendAmount, heatmap>>
  /\ saveState

NewGroupNames == {"", "Trip"}

\* window.createNewGroup: after the check of the name the handler reads the
\* variable activeGroups, which neither copy declares
createNewGroup(nameText) ==
  IF nameText = ""
    THEN rejected("Group name required", "")
    ELSE rejected("", "ReferenceError")

-----------------------------------------------------------------------------
(* Functions of the page that change what is shown or where a handler writes *)

Periods == {"day", "week", "month", "all"}

\* window.applyDateFilter(period)
applyDateFilter(period) ==
  /\ silent
  /\ currentFilter' = period
  /\ sentimentTotals' = updateSentimentAnalysis(transactions, period, now)
  /\ UNCHANGED <<page, inflight, timers, bareTimers, lastWrite, userData, ledger,
                 safeSpendAmount, heatmap>>

\* window.toggleSpendingDetails(show): opening the modal filters by month
toggleSpendingDetails(show) ==
  IF show THEN applyDateFilter("month") ELSE rejected("", "")

\* window.recalculateDashboard
RecalculateDashboard ==
  /\ silent
  /\ UNCHANGED ledger
  /\ recalculated
  /\ UNCHANGED <<analysis, page, inflight, timers, bareTimers, lastWrite, userData, heatmap>>

\* window.initApp
InitApp ==
  /\ silent
  /\ chatStore' = withRoommates(chatStore)
  /\ groupMembers' = withRoommates(groupMembers)
  /\ UNCHANGED <<userProfile, transactions, fixedExpenses, activeGoals, activeLoans,
                 monthlyLimit, dailySpent>>
  /\ recalculated
  /\ rendered(userData)
  /\ UNCHANGED <<analysis, page, inflight, timers, bareTimers, lastWrite, userData>>

\* window.saveState
SaveState ==
  /\ silent
  /\ UNCHANGED <<analysis, page, ledger, safeSpendAmount, heatmap>>
  /\ saveState

Sections == {"dashboard", "transactions"}

\* window.switchSection(sectionId) (the annotated copy only): showing the
\* transactions section arms a 10 ms timer that draws the heatmap again
switchSection(sectionId) ==
  /\ script = "dashboard"
  /\ silent
  /\ IF sectionId = "transactions"
       THEN renderTimers < MaxTimers /\ renderTimers' = renderTimers + 1
       ELSE UNCHANGED renderTimers
  /\ UNCHANGED <<analysis, currentChatId, tempMembers, inflight, timers, bareTimers, lastWrite,
                 userData,
                 ledger, safeSpendAmount, heatmap>>

\* the timer of switchSection fires: renderHeatmap()
RenderTimer ==
  /\ renderTimers > 0
  /\ renderTimers' = renderTimers - 1
  /\ heatmap' = renderHeatmap(script, curUserData, transactions, daysInMonth)
  /\ UNCHANGED <<script, tzOffset, currentChatId, tempMembers, analysis, clock, uid,
                 authPc,
                 store, userData, preData, ledger, safeSpendAmount, toast, thrown,
                 ops>>

\* window.renderHeatmap (the annotated copy only)
CallRenderHeatmap ==
  /\ script = "dashboard"
  /\ silent
  /\ UNCHANGED ledger
  /\ rendered(userData)
  /\ UNCHANGED <<analysis, page, inflight, timers, bareTimers, lastWrite, userData,
                 safeSpendAmount>>

\* the onclick handler renderHeatmap gives the cell of a day:
\* window.showToast(`Day ${i}: Spent ₹${amount}`), with the amount the cell
\* was drawn with
cellOnclick(day) ==
  /\ day \in DOMAIN heatmap
  /\ accepted("Day " \o ToString(day) \o ": Spent ₹"
                \o ToString(heatmap[day].amount))
  /\ UNCHANGED <<inflight, timers, bareTimers, lastWrite, userData, ledger, safeSpendAmount,
                 heatmap>>

MemberNames == {"", "Ravi"}
MemberPhones == {"", "98"}

\* window.handleAddMember: #newMemberEmail is left empty
handleAddMember(name, phone) ==
  IF name # "" /\ phone # ""
    THEN /\ silent
         /\ tempMembers' =
              Append(tempMembers, [name |-> name, phone |-> phone, email |-> ""])
         /\ UNCHANGED <<analysis, currentChatId, renderTimers, inflight, timers, bareTimers,
                        lastWrite, userData, ledger, safeSpendAmount, heatmap>>
    ELSE rejected("Name and Phone required", "")

\* window.toggleGroupCreator(show): opening the creator empties the list
toggleGroupCreator(show) ==
  /\ silent
  /\ tempMembers' = IF show THEN <<>> ELSE tempMembers
  /\ UNCHANGED <<analysis, currentChatId, renderTimers, inflight, timers, bareTimers,
                 lastWrite, userData, ledger, safeSpendAmount, heatmap>>

\* window.syncUserData() called by itself: the data is window.userData as it
\* stands, without the copy saveState makes
SyncUserData ==
  /\ silent
  /\ UNCHANGED <<analysis, page, userData, ledger, safeSpendAmount, heatmap>>
  /\ syncUserData(curUserData, FALSE)

-----------------------------------------------------------------------------
(* Next-state relation *)

SaveTransaction ==
  \E m \in Merchants, a \in TxAmounts, st \in Sentiments : saveTransaction(m, a, st)
AddQuickExpense ==
  \E m \in Merchants, a \in QuickAmounts : addQuickExpense(m, a)
AddFixedExpense ==
  \E n \in FixedNames, a \in FixedAmounts : addFixedExpense(n, a)
RemoveFixedExpense == \E arg \in RemoveArgs : removeFixedExpense(arg)
SaveGoal ==
  \E in \in GoalInputs : saveGoal(in[1], in[2], in[3])
RemoveGoal ==
  \E id \in {activeGoals[i].id : i \in 1..Len(activeGoals)} \cup {0} : removeGoal(id)
SaveLoan ==
  \E in \in LoanInputs : saveLoan(in[1], "Ravi", in[2], in[3])
SaveBudgetSettings == \E v \in LimitTexts : saveBudgetSettings(v)
SaveProfile == \E in \in ProfileInputs : saveProfile(in[1], in[2])
SendSquadChat == \E t \in ChatTexts : sendSquadChat(t)
SubmitSplit == \E i \in SplitItems, a \in SplitAmounts : submitSplit(i, a)
CreateNewGroup == \E n \in NewGroupNames : createNewGroup(n)
RandomizeAvatar == \E seed \in AvatarSeeds : randomizeAvatar(seed)
SwitchGroup == \E g \in GroupNames : switchGroup(g)
SendChat == \E t \in ChatTexts : sendChat(t)
ApplyDateFilter == \E period \in Periods : applyDateFilter(period)
ToggleSpendingDetails == \E show \in BOOLEAN : toggleSpendingDetails(show)
SwitchSection == \E id \in Sections : switchSection(id)
CellOnclick == \E day \in {1, getDate(now)} : cellOnclick(day)
HandleAddMember ==
  \E name \in MemberNames, phone \in MemberPhones : handleAddMember(name, phone)
ToggleGroupCreator == \E show \in BOOLEAN : toggleGroupCreator(show)

Next ==
  \/ AuthStateChanged
  \/ GetDocFound
  \/ GetDocMissing
  \/ WriteLands
  \/ WriteFails
  \/ RetryTimer
  \/ SaveTransaction
  \/ AddQuickExpense
  \/ AddFixedExpense
  \/ RemoveFixedExpense
  \/ SaveGoal
  \/ RemoveGoal
  \/ SaveLoan
  \/ SaveBudgetSettings
  \/ SaveProfile
  \/ SendSquadChat
  \/ SubmitSplit
  \/ CreateNewGroup
  \/ RandomizeAvatar
  \/ SwitchGroup
  \/ SendChat
  \/ ApplyDateFilter
  \/ ToggleSpendingDetails
  \/ RecalculateDashboard
  \/ InitApp
  \/ SaveState
  \/ SwitchSection
  \/ RenderTimer
  \/ CallRenderHeatmap
  \/ CellOnclick
  \/ HandleAddMember
  \/ ToggleGroupCreator
  \/ SyncUserData

Spec == Init /\ [][Next]_vars

\* a session that stays open over midnight
NextDays ==
  \/ AuthStateChanged
  \/ GetDocFound
  \/ GetDocMissing
  \/ WriteLands
  \/ RetryTimer
  \/ Tick
  \/ SaveTransaction
  \/ AddQuickExpense
  \/ SaveGoal
  \/ RemoveGoal

SpecDays == Init /\ [][NextDays]_vars

\* a session in which the store accepts every write
NextReliable ==
  \/ AuthStateChanged
  \/ GetDocFound
  \/ GetDocMissing
  \/ WriteLands
  \/ RetryTimer
  \/ SaveTransaction
  \/ AddQuickExpense
  \/ AddFixedExpense
  \/ RemoveFixedExpense
  \/ SaveGoal
  \/ RemoveGoal
  \/ SaveLoan
  \/ SaveBudgetSettings
  \/ SaveProfile
  \/ SendSquadChat
  \/ SubmitSplit
  \/ CreateNewGroup
  \/ RandomizeAvatar
  \/ SwitchGroup
  \/ SendChat
  \/ ApplyDateFilter
  \/ ToggleSpendingDetails
  \/ RecalculateDashboard
  \/ InitApp
  \/ SaveState
  \/ SwitchSection
  \/ RenderTimer
  \/ CallRenderHeatmap
  \/ CellOnclick
  \/ HandleAddMember
  \/ ToggleGroupCreator
  \/ SyncUserData

SpecReliable == Init /\ [][NextReliable]_vars

-----------------------------------------------------------------------------
(* The derivation on its own: recalculateDashboard() applied to ledgers and *)
(* dates drawn from bounded sets                                            *)

MonthLengths == {28, 29, 30, 31}
CalcLimits == {0, 1000, 30000}
CalcFixed == {<<>>, << [name |-> "Rent", amount |-> 15000],
                       [name |-> "Internet", amount |-> 1000] >>}
CalcLoan(type, daily) ==
  [id |-> 1, type |-> type, person |-> "Ravi", amount |-> Num(10000),
   duration |-> Num(50), daily |-> daily]
CalcLoans == {<<>>, << CalcLoan("borrow", Num(200)) >>,
              << CalcLoan("lend", Num(200)), CalcLoan("borrow", Num(30)) >>}
CalcGoals == {<<>>, << [id |-> 2, name |-> "Laptop", amount |-> Num(1000),
                        deadline |-> 0, daily |-> Num(334), daysLeft |-> 3] >>}
CalcSpent == {0, 100}

InitCalc ==
  /\ script \in Scripts
  /\ daysInMonth \in MonthLengths
  /\ \E day \in {1, 15, daysInMonth - 1, daysInMonth} :
       now = (day - 1) * oneDayMs + (oneDayMs \div 2)
  /\ uid = NoUid
  /\ authPc = "idle"
  /\ remote = NoDoc
  /\ inflight = <<>>
  /\ timers = 0
  /\ bareTimers = 0
  /\ lastWrite = NoWrite
  /\ userData = EmptyDoc
  /\ preData = EmptyDoc
  /\ userProfile = [name |-> "", phone |-> "", avatar |-> "", tempAvatar |-> ""]
  /\ transactions = <<>>
  /\ fixedExpenses \in CalcFixed
  /\ activeGoals \in CalcGoals
  /\ activeLoans \in CalcLoans
  /\ chatStore = EmptyMap
  /\ groupMembers = EmptyMap
  /\ monthlyLimit \in CalcLimits
  /\ dailySpent \in CalcSpent
  /\ safeSpendAmount = Unset
  /\ heatmap = <<>>
  /\ currentFilter = "month"
  /\ sentimentTotals = Unset
  /\ currentChatId = "Roommates"
  /\ renderTimers = 0
  /\ tempMembers = <<>>
  /\ tzOffset = 0
  /\ toast = ""
  /\ thrown = ""
  /\ ops = 0
  /\ ticks = 0

\* recalculateDashboard() runs on the ledger as it stands
Recalculate ==
  /\ safeSpendAmount = Unset
  /\ safeSpendAmount' =
       recalculateDashboard(script, now, daysInMonth, monthlyLimit, fixedExpenses,
                            activeLoans, activeGoals, dailySpent)
  /\ UNCHANGED <<script, tzOffset, page, analysis,
                 clock, uid, authPc, store, userData, preData, ledger,
                 heatmap, toast, thrown, ops>>

NextCalc == Recalculate

SpecCalc == InitCalc /\ [][NextCalc]_vars

-----------------------------------------------------------------------------
(* C1: the safe-to-spend figure *)

\* the figure with D = the number of days of the current month
safeSpendByMonth(dim, limit, fx, ln, gl, spent) ==
  JsMax0(JsSub(JsSub(JsSub(Num((limit - SumFixed(fx)) \div dim),
                           SumDaily(SelectSeq(ln, IsBorrow))),
                     SumDaily(gl)),
               Num(spent)))

\* C1: for every ledger and every date, the figure recalculateDashboard
\* computes is max(0, floor((monthlyLimit - sum of fixed amounts) / D) - daily
\* of borrow loans - daily of goals - spent today) with D the number of days
\* of the current month, never the days remaining
C1_SafeSpendByDaysInMonth ==
  safeSpendAmount # Unset =>
    safeSpendAmount = safeSpendByMonth(daysInMonth, monthlyLimit, fixedExpenses,
                                       activeLoans, activeGoals, dailySpent)

-----------------------------------------------------------------------------
(* C2: the spent-today term *)

RECURSIVE SumToday(_, _)
\* the amounts of the transactions of tx made on the calendar date of t
SumToday(tx, t) ==
  IF tx = <<>> THEN Num(0)
  ELSE LET rest == SumToday(Tail(tx), t) IN
       IF dateOf(Head(tx).timestamp) = dateOf(t)
         THEN JsAdd(Head(tx).amount, rest) ELSE rest

\* C2: in every reachable state the spent-today term of the safe-spend
\* computation (dailySpent) is the sum of the amounts of exactly the
\* transactions whose timestamp falls on the current calendar date
C2_SpentTodayIsTodaysSum == Num(dailySpent) = SumToday(transactions, now)

-----------------------------------------------------------------------------
(* C3: write-through *)

\* the profile, without the avatar that is only being tried out
profileOf(p) == <<p.name, p.phone, p.avatar>>

\* what of the ledger a commit is to persist
persisted ==
  <<profileOf(userProfile), transactions, fixedExpenses, activeGoals, activeLoans,
    chatStore.at, groupMembers.at, monthlyLimit>>

\* the step is a handler call that changed the ledger
Mutated == ops' = ops + 1 /\ persisted' # persisted

\* the document d carries the ledger as it stands after the step
PayloadIsLedger(d) ==
  /\ (ListFields \cup MapFields \cup {"monthlyLimit"}) \subseteq d.has
  /\ d.transactions = transactions'
  /\ d.fixedExpenses = fixedExpenses'
  /\ d.goals = activeGoals'
  /\ d.loans = activeLoans'
  /\ d.chatGroups = chatStore'
  /\ d.groupMembers = groupMembers'
  /\ d.monthlyLimit = monthlyLimit'
  /\ userProfile'.name # "" => d.name = userProfile'.name
  /\ userProfile'.phone # "" => d.phone = userProfile'.phone
  /\ userProfile'.avatar # "" => d.avatar = userProfile'.avatar

\* the step made exactly one persistence request: one deferred call while
\* the identity is unresolved, else one write whose payload is the ledger
OneRequestOfLedger ==
  IF uid = NoUid
    THEN timers' = timers + 1 /\ inflight' = inflight
    ELSE /\ timers' = timers
         /\ Len(inflight') = Len(inflight) + 1
         /\ SubSeq(inflight', 1, Len(inflight)) = inflight
         /\ inflight'[Len(inflight')].op = "merge"
         /\ PayloadIsLedger(inflight'[Len(inflight')].data)

\* C3: every successful mutating action is followed by exactly one
\* persistence request, issued after the mutation, whose payload is the
\* ledger as it stands after that mutation
C3_WriteThrough == [][Mutated => OneRequestOfLedger]_vars

-----------------------------------------------------------------------------
(* C4: eventual consistency *)

\* no mutation is pending anywhere: the identity is resolved, the ledger is
\* hydrated, no retry timer is armed and no write is in flight
Quiescent ==
  uid # NoUid /\ authPc = "ready" /\ timers = 0 /\ inflight = <<>>

\* the collections of the stored document are the local ones (a group with
\* no message and a group that is not there count as equal)
RemoteCollectionsAreLocal ==
  /\ remote.exists
  /\ remote.doc.transactions = transactions
  /\ remote.doc.fixedExpenses = fixedExpenses
  /\ remote.doc.goals = activeGoals
  /\ remote.doc.loans = activeLoans
  /\ remote.doc.chatGroups.at = chatStore.at
  /\ remote.doc.groupMembers.at = groupMembers.at

\* C4: once the identity is resolved and every issued commit has completed
\* successfully, the ledger fields of the remote document equal the local
\* ledger (checked where no write fails)
C4_EventualConsistency ==
  Quiescent => RemoteCollectionsAreLocal /\ remote.doc.monthlyLimit = monthlyLimit

-----------------------------------------------------------------------------
(* C5: commits requested before the identity is resolved *)

\* while the identity is unresolved no write is issued and no pending retry
\* is given up, however often the timer fires
NoWriteWithoutIdentity ==
  uid = NoUid => inflight' = inflight /\ timers' >= timers

\* a retry that ends issues one merge write, marked as issued by the timer
RetryIssuesMerge ==
  timers' < timers =>
    /\ uid # NoUid
    /\ timers' = timers - 1
    /\ Len(inflight') = Len(inflight) + 1
    /\ inflight'[Len(inflight')].op = "merge"
    /\ inflight'[Len(inflight')].retry

\* the ledger the commits deferred before sign-in were asked to write: the
\* window.userData of the session until hydration assigns another object to
\* it, and from then on that window.userData as hydration found it
DeferredLedger == IF authPc = "ready" THEN preData ELSE curUserData

\* the write a retry issues carries the ledger of the deferred commit
RetryWritesDeferred ==
  timers' < timers => inflight'[Len(inflight')].data = DeferredLedger

\* C5: a commit requested while the user identity is unresolved performs no
\* remote write and is retried without a cap on the retries; once the
\* identity has resolved, the deferred commit is what the retry writes to
\* the remote store under that identity
C5_DeferredCommitWritten ==
  [][NoWriteWithoutIdentity /\ RetryIssuesMerge /\ RetryWritesDeferred]_vars

-----------------------------------------------------------------------------
(* C6: a commit is a merge write *)

\* the step issues a write and is not loadUserDoc's setDoc(ref, newUser),
\* after which the callback waits for the creation of the document
IssuesCommit ==
  /\ Len(inflight') = Len(inflight) + 1
  /\ ~(authPc = "getDoc" /\ authPc' = "creating")

\* the step is the arrival in the store of the write inflight[i], and is not
\* the arrival of loadUserDoc's write, after which the callback hydrates
CommitLands(i) ==
  /\ inflight' = RemoveAt(inflight, i)
  /\ lastWrite' = Completed(inflight[i], TRUE)
  /\ authPc' = authPc

\* the write w has reached the stored document: every stored field is still
\* there, a field absent from w has its value, and every key of a stored map
\* is still there, with its value when w does not carry the key
MergeKeeps(w) ==
  /\ remote'.exists
  /\ remote.doc.has \subseteq remote'.doc.has
  /\ \A f \in remote.doc.has \ w.data.has : remote'.doc[f] = remote.doc[f]
  /\ \A f \in MapFields \cap remote.doc.has :
       \A g \in remote.doc[f].keys :
         /\ g \in remote'.doc[f].keys
         /\ g \notin w.data[f].keys => remote'.doc[f].at[g] = remote.doc[f].at[g]

-----------------------------------------------------------------------------
(* C7: hydration of a first-time user *)

\* the step is the end of loadUserDoc's creation of the default document
\* and the handling of the ready signal that follows it
FirstTimeHydration == authPc = "creating" /\ authPc' = "ready"

\* C7: hydration of a first-time user writes exactly the default document
\* (every collection empty, monthlyLimit 0) and leaves the in-memory ledger
\* with monthlyLimit 0 and no transaction, fixed expense, goal, loan, chat
\* message or group member
C7_FirstTimeLedgerIsDefault ==
  [][FirstTimeHydration =>
       /\ remote'.exists
       /\ remote'.doc = newUser(remote'.doc.createdAt)
       /\ monthlyLimit' = 0
       /\ transactions' = <<>>
       /\ fixedExpenses' = <<>>
       /\ activeGoals' = <<>>
       /\ activeLoans' = <<>>
       /\ chatStore'.at = EmptyMap.at
       /\ groupMembers'.at = EmptyMap.at]_vars

-----------------------------------------------------------------------------
(* C8: a rejected write *)

\* the step is the completion of a write that the store rejected
WriteRejected == Len(inflight') < Len(inflight) /\ ~lastWrite'.ok

\* C8: when the write of a commit fails, the ledger and the figures derived
\* from it stay as they were after the mutation, nothing is thrown to or
\* shown by the handler that made the mutation, and the write is not issued
\* again
C8_FailedWriteLeavesLedger ==
  [][WriteRejected =>
       /\ ledger' = ledger
       /\ safeSpendAmount' = safeSpendAmount
       /\ userData' = userData
       /\ toast' = toast /\ thrown' = thrown
       /\ remote' = remote
       /\ timers' = timers
       /\ \E i \in 1..Len(inflight) : inflight' = RemoveAt(inflight, i)]_vars

\* the commit of a transaction was rejected: the transaction is in the
\* local ledger and not in the store, and nothing is pending
C8_Witness ==
  /\ lastWrite = Completed(Write("merge", EmptyDoc, FALSE), FALSE)
  /\ authPc = "ready"
  /\ inflight = <<>> /\ timers = 0
  /\ transactions # <<>>
  /\ remote.exists
  /\ remote.doc.transactions # transactions
  /\ safeSpendAmount =
       recalculateDashboard(script, now, daysInMonth, monthlyLimit, fixedExpenses,
                            activeLoans, activeGoals, dailySpent)

-----------------------------------------------------------------------------
(* C9: loans entered with a zero, missing or non-numeric field *)

\* C9: saveLoan with duration 0 or with a missing or non-numeric amount or
\* duration is rejected, so that no stored loan has such a field and no
\* stored daily amount is anything but a finite integer
C9_NoUndefinedLoan ==
  \A i \in 1..Len(activeLoans) :
    /\ IsFinite(activeLoans[i].amount)
    /\ IsFinite(activeLoans[i].duration)
    /\ activeLoans[i].duration.v # 0
    /\ IsFinite(activeLoans[i].daily)

-----------------------------------------------------------------------------
(* C10: rejected inputs *)

\* C10: a call of saveTransaction, addFixedExpense or saveGoal with a
\* required field missing or an amount <= 0 is rejected, leaving the ledger
\* as it was: a handler never adds a transaction, a fixed expense or a goal
\* without a name or with an amount that is not positive
C10_InvalidInputsRejected ==
  [][ops' = ops + 1 =>
       /\ Len(transactions') > Len(transactions) =>
            /\ transactions'[1].merchant # ""
            /\ JsPositive(transactions'[1].amount)
       /\ Len(fixedExpenses') > Len(fixedExpenses) =>
            /\ fixedExpenses'[Len(fixedExpenses')].name # ""
            /\ fixedExpenses'[Len(fixedExpenses')].amount > 0
       /\ Len(activeGoals') > Len(activeGoals) =>
            /\ activeGoals'[Len(activeGoals')].name # ""
            /\ JsPositive(activeGoals'[Len(activeGoals')].amount)]_vars

-----------------------------------------------------------------------------
(* C11: signs of the stored amounts *)

\* x >= 0
JsNonNegative(x) == x.k = "Infinity" \/ (x.k = "num" /\ x.v >= 0)

\* C11: in every reachable state monthlyLimit >= 0, every fixed expense
\* amount >= 0, every transaction amount >= 0 and every goal's daily
\* contribution >= 0, whatever integers the mutators were called with
C11_NonNegativeLedger ==
  /\ monthlyLimit >= 0
  /\ \A i \in 1..Len(fixedExpenses) : fixedExpenses[i].amount >= 0
  /\ \A i \in 1..Len(transactions) : JsNonNegative(transactions[i].amount)
  /\ \A i \in 1..Len(activeGoals) : JsNonNegative(activeGoals[i].daily)

-----------------------------------------------------------------------------
(* C12: the safe-to-spend figure is a number *)

\* the figure recalculateDashboard() computes in the current state
dailySafeSpend ==
  recalculateDashboard(script, now, daysInMonth, monthlyLimit, fixedExpenses,
                       activeLoans, activeGoals, dailySpent)

\* C12: in every reachable state in which the fixed expenses sum to at most
\* monthlyLimit, the computed safe-to-spend figure is a defined number >= 0,
\* whatever loans, goals and transactions were added before
C12_SafeSpendDefined ==
  SumFixed(fixedExpenses) <= monthlyLimit =>
    IsFinite(dailySafeSpend) /\ dailySafeSpend.v >= 0

-----------------------------------------------------------------------------
(* C13: loans of type lend *)

\* the step is a call of saveLoan that stored a loan of type lend
LendLoanAdded ==
  /\ ops' = ops + 1
  /\ Len(activeLoans') = Len(activeLoans) + 1
  /\ activeLoans'[Len(activeLoans')].type = "lend"

\* C13: adding a loan of type lend leaves the safe-to-spend figure of the
\* ledger unchanged, and the figure shown after the call is that figure:
\* only the loans of type borrow are deducted
C13_LendLoanNotDeducted ==
  [][LendLoanAdded =>
       dailySafeSpend' = dailySafeSpend /\ safeSpendAmount' = dailySafeSpend']_vars

\* a lend loan is the last loan stored and a positive figure is shown
C13_Witness ==
  /\ activeLoans # <<>>
  /\ activeLoans[Len(activeLoans)].type = "lend"
  /\ activeLoans[Len(activeLoans)].daily = Num(200)
  /\ safeSpendAmount = dailySafeSpend
  /\ IsFinite(safeSpendAmount) /\ safeSpendAmount.v > 0

-----------------------------------------------------------------------------
(* C14: loans of type borrow *)

\* the step is a call of saveLoan that stored a borrow loan with a numeric
\* amount and a duration > 0
BorrowLoanAdded ==
  /\ ops' = ops + 1
  /\ Len(activeLoans') = Len(activeLoans) + 1
  /\ activeLoans'[Len(activeLoans')].type = "borrow"
  /\ IsFinite(activeLoans'[Len(activeLoans')].amount)
  /\ IsFinite(activeLoans'[Len(activeLoans')].duration)
  /\ activeLoans'[Len(activeLoans')].duration.v > 0

\* floor(A / D) of the loan l
flooredDaily(l) == l.amount.v \div l.duration.v

\* C14: saveLoan with type borrow, amount A and duration D > 0 stores
\* daily = floor(A / D); the figure shown afterwards is the safe-to-spend
\* figure of the new ledger, and it is lower than the figure of the ledger
\* before the call by exactly floor(A / D) whenever the deduction does not
\* reach the clamp at 0
C14_BorrowLoanDeducted ==
  [][BorrowLoanAdded =>
       LET l == activeLoans'[Len(activeLoans')] IN
       /\ l.daily = Num(flooredDaily(l))
       /\ safeSpendAmount' = dailySafeSpend'
       /\ (IsFinite(dailySafeSpend) /\ dailySafeSpend.v >= flooredDaily(l)) =>
            dailySafeSpend' = Num(dailySafeSpend.v - flooredDaily(l))]_vars

\* a borrow loan of 10000 over 50 days is the last loan stored, and the
\* figure shown is 200 below the figure of the ledger without it
C14_Witness ==
  /\ activeLoans # <<>>
  /\ activeLoans[Len(activeLoans)].type = "borrow"
  /\ activeLoans[Len(activeLoans)].amount = Num(10000)
  /\ activeLoans[Len(activeLoans)].duration = Num(50)
  /\ activeLoans[Len(activeLoans)].daily = Num(200)
  /\ IsFinite(safeSpendAmount) /\ safeSpendAmount.v > 0
  /\ Num(safeSpendAmount.v + 200) =
       recalculateDashboard(script, now, daysInMonth, monthlyLimit, fixedExpenses,
                            SubSeq(activeLoans, 1, Len(activeLoans) - 1),
                            activeGoals, dailySpent)

-----------------------------------------------------------------------------
(* C15: the ceiling property of a goal's daily contribution *)

\* the step is a call of saveGoal that stored a goal with a target amount
\* T >= 0
GoalAdded ==
  /\ ops' = ops + 1
  /\ Len(activeGoals') = Len(activeGoals) + 1
  /\ JsNonNegative(activeGoals'[Len(activeGoals')].amount)
  /\ IsFinite(activeGoals'[Len(activeGoals')].amount)

\* C15: for every goal created by saveGoal with a target amount T >= 0 the
\* stored daysLeft n is >= 1 and the stored daily contribution satisfies
\* daily * n >= T
C15_GoalCeiling ==
  [][GoalAdded =>
       LET g == activeGoals'[Len(activeGoals')] IN
       /\ g.daysLeft >= 1
       /\ IsFinite(g.daily)
       /\ g.daily.v * g.daysLeft >= g.amount.v]_vars

\* a goal of 1000 due in three days is stored with 334 a day
C15_Witness ==
  \E i \in 1..Len(activeGoals) :
    /\ activeGoals[i].amount = Num(1000)
    /\ activeGoals[i].daysLeft = 3
    /\ activeGoals[i].daily = Num(334)

-----------------------------------------------------------------------------
(* renderHeatmap() as a function of the ledger: the ledgers it is applied to *)

HeatLimits == {0, 30000, 300000}
HeatFixed == {<<>>, << [name |-> "Rent", amount |-> 15000] >>,
              << [name |-> "Rent", amount |-> 25000] >>,
              << [name |-> "Rent", amount |-> 40000] >>}
HeatAmounts == {0 - 5, 0, 100, 499, 500, 1900, 2000}

\* a transaction of the given amount made at noon of the given day
HeatTx(day, amount) ==
  [timestamp |-> (day - 1) * oneDayMs + (oneDayMs \div 2), merchant |-> "Cafe",
   amount |-> Num(amount), sentiment |-> "worthy"]

\* one purchase on the 2nd, two on the 3rd and one in the month before
HeatLedgers ==
  {<<HeatTx(3, 100), HeatTx(3, b), HeatTx(2, a), HeatTx(0, 5000)>> :
     a \in HeatAmounts, b \in HeatAmounts}

\* a hydrated ledger on which nothing has been drawn yet
InitHeat ==
  /\ script \in Scripts
  /\ daysInMonth \in MonthLengths
  /\ now = startOf(daysInMonth)
  /\ uid = "u1"
  /\ authPc = "ready"
  /\ remote = NoDoc
  /\ inflight = <<>>
  /\ timers = 0
  /\ bareTimers = 0
  /\ lastWrite = NoWrite
  /\ monthlyLimit \in HeatLimits
  /\ userData = [EmptyDoc EXCEPT !.has = Fields, !.name = "Asha",
                                 !.monthlyLimit = monthlyLimit]
  /\ preData = EmptyDoc
  /\ userProfile = [name |-> "Asha", phone |-> "", avatar |-> defaultAvatar,
                    tempAvatar |-> ""]
  /\ transactions \in HeatLedgers
  /\ fixedExpenses \in HeatFixed
  /\ activeGoals = <<>>
  /\ activeLoans = <<>>
  /\ chatStore = RoommatesOnly
  /\ groupMembers = RoommatesOnly
  /\ dailySpent = 0
  /\ safeSpendAmount = Unset
  /\ heatmap = <<>>
  /\ currentFilter = "month"
  /\ sentimentTotals = Unset
  /\ currentChatId = "Roommates"
  /\ renderTimers = 0
  /\ tempMembers = <<>>
  /\ tzOffset = 0
  /\ toast = ""
  /\ thrown = ""
  /\ ops = 0
  /\ ticks = 0

\* renderHeatmap() runs on the ledger as it stands
RenderHeatmap ==
  /\ heatmap = <<>>
  /\ heatmap' = renderHeatmap(script, curUserData, transactions, daysInMonth)
  /\ UNCHANGED <<script, tzOffset, page, analysis,
                 clock, uid, authPc, store, userData, preData, ledger,
                 safeSpendAmount, toast, thrown, ops>>

NextHeat == RenderHeatmap

SpecHeat == InitHeat /\ [][NextHeat]_vars

-----------------------------------------------------------------------------
(* C16: the heatmap tier grows with the day's spend *)

\* the total spend of a day of the month: the sum of the amounts of the
\* transactions whose timestamp falls on it
daySpend(day) == SumToday(transactions, (day - 1) * oneDayMs)

\* C16: once the heatmap is drawn, a day with spend 0 is in the tier "none",
\* and of two days the one with the larger total spend is never in a lower
\* tier, for every monthly limit and every set of fixed expenses (fixed
\* expenses above the limit included)
C16_TierMonotoneInSpend ==
  heatmap # <<>> =>
    \A d1, d2 \in 1..daysInMonth :
      /\ daySpend(d1) = Num(0) => heatmap[d1].tier = 0
      /\ daySpend(d1).v <= daySpend(d2).v => heatmap[d1].tier <= heatmap[d2].tier

\* the fixed expenses exceed the limit; a day without spend is colourless and
\* of two days with different positive spends the larger is coloured, and
\* not paler than the smaller
C16_Witness ==
  /\ heatmap # <<>>
  /\ SumFixed(fixedExpenses) > monthlyLimit
  /\ daySpend(1) = Num(0) /\ heatmap[1].tier = 0
  /\ daySpend(2).v > 0 /\ daySpend(2).v < daySpend(3).v
  /\ heatmap[2].tier > 0 /\ heatmap[2].tier <= heatmap[3].tier

-----------------------------------------------------------------------------
(* C17: the tier boundaries *)

\* the tier of a spend under the boundaries > 0, >= 500 and >= 2000
absoluteTier(spent) ==
  IF spent >= 2000 THEN 3 ELSE IF spent >= 500 THEN 2
  ELSE IF spent > 0 THEN 1 ELSE 0

\* C17: once the heatmap is drawn, the tier of every day is the one the
\* absolute boundaries > 0, >= 500 and >= 2000 give its total spend, so that
\* a day whose total spend is 2000 is in the highest tier whatever the
\* monthly limit and the fixed expenses are
C17_AbsoluteTiers ==
  heatmap # <<>> =>
    \A d \in 1..daysInMonth :
      /\ heatmap[d].tier = absoluteTier(daySpend(d).v)
      /\ daySpend(d) = Num(2000) => heatmap[d].tier = 3

-----------------------------------------------------------------------------
(* The spending analysis as a function of the ledger: the ledgers and the   *)
(* periods applyDateFilter is applied to                                     *)

SentimentTags == {"worthy", "regret", "neutral", "ignore"}
\* how long before the call a purchase was made
SentAges == {1000, oneDayMs, 3 * oneDayMs, 7 * oneDayMs, 40 * oneDayMs}

SentTx(t, age, amount, tag) ==
  [timestamp |-> t - age, merchant |-> "Cafe", amount |-> Num(amount),
   sentiment |-> tag]

\* two purchases of any age and tag, the newer first
SentLedgers(t) ==
  {<<SentTx(t, a1, 100, s1), SentTx(t, a2, 250, s2)>> :
     a1 \in SentAges, a2 \in SentAges, s1 \in SentimentTags, s2 \in SentimentTags}

\* a hydrated ledger whose analysis has not been opened yet
InitSent ==
  /\ script \in Scripts
  /\ daysInMonth \in SessionMonths
  /\ now = startOf(daysInMonth)
  /\ uid = "u1"
  /\ authPc = "ready"
  /\ remote = NoDoc
  /\ inflight = <<>>
  /\ timers = 0
  /\ bareTimers = 0
  /\ lastWrite = NoWrite
  /\ monthlyLimit = 30000
  /\ userData = [EmptyDoc EXCEPT !.has = Fields, !.name = "Asha",
                                 !.monthlyLimit = monthlyLimit]
  /\ preData = EmptyDoc
  /\ userProfile = [name |-> "Asha", phone |-> "", avatar |-> defaultAvatar,
                    tempAvatar |-> ""]
  /\ transactions \in SentLedgers(now)
  /\ fixedExpenses = <<>>
  /\ activeGoals = <<>>
  /\ activeLoans = <<>>
  /\ chatStore = RoommatesOnly
  /\ groupMembers = RoommatesOnly
  /\ dailySpent = 0
  /\ safeSpendAmount = Unset
  /\ heatmap = <<>>
  /\ currentFilter = "month"
  /\ sentimentTotals = Unset
  /\ currentChatId = "Roommates"
  /\ renderTimers = 0
  /\ tempMembers = <<>>
  /\ tzOffset = 0
  /\ toast = ""
  /\ thrown = ""
  /\ ops = 0
  /\ ticks = 0

NextSent == ApplyDateFilter

SpecSent == InitSent /\ [][NextSent]_vars

-----------------------------------------------------------------------------
(* C18: the sentiment totals partition the filtered total *)

RECURSIVE SumAmounts(_)
\* the total amount of the transactions of tx
SumAmounts(tx) ==
  IF tx = <<>> THEN Num(0) ELSE JsAdd(Head(tx).amount, SumAmounts(Tail(tx)))

\* the transactions of tx with one of the given sentiment tags
Tagged(tx, tags) == SelectSeq(tx, LAMBDA x : x.sentiment \in tags)

\* C18: whenever applyDateFilter computes the spending analysis, for the
\* period it filters by, the totals of worthy, regret and the neutral bucket
\* sum to the total amount of the transactions getFilteredTransactions selects:
\* worthy is the total of the selected transactions tagged worthy, regret of
\* those tagged regret, and every other selected transaction, whatever its
\* tag, is in the neutral bucket
C18_SentimentPartition ==
  [][ops' = ops + 1 =>
       LET sel == getFilteredTransactions(transactions, currentFilter', now)
           shown == sentimentTotals' IN
       /\ Num(shown.worthy + shown.regret + shown.ignore) = SumAmounts(sel)
       /\ Num(shown.total) = SumAmounts(sel)
       /\ Num(shown.worthy) = SumAmounts(Tagged(sel, {"worthy"}))
       /\ Num(shown.regret) = SumAmounts(Tagged(sel, {"regret"}))
       /\ Num(shown.ignore)
            = SumAmounts(Tagged(sel, SentimentTags \ {"worthy", "regret"}))]_vars

\* the analysis of the week: a purchase tagged neutral is selected and
\* counted in the neutral bucket, and an older purchase is left out
C18_Witness ==
  /\ sentimentTotals # Unset
  /\ currentFilter = "week"
  /\ Len(getFilteredTransactions(transactions, "week", now)) = 1
  /\ getFilteredTransactions(transactions, "week", now)[1].sentiment = "neutral"
  /\ sentimentTotals.ignore > 0
  /\ sentimentTotals.total = sentimentTotals.ignore

-----------------------------------------------------------------------------
(* C19: removing what is not there *)

\* the argument of removeFixedExpense designates no element of s
DesignatesNone(arg, s) == ~arg.given \/ arg.i < 0 \/ arg.i >= Len(s)

\* no goal has the id
HeldByNone(id) == \A i \in 1..Len(activeGoals) : activeGoals[i].id # id

\* C19: a call of removeFixedExpense with an index that designates no
\* element (an index >= the length, a negative index or no index) and a call
\* of removeGoal with an id no goal has leave the fixed expenses and the goals
\* as they were and raise no error
C19_RemoveAbsentIsNoOp ==
  [][/\ \A arg \in RemoveArgs :
          DesignatesNone(arg, fixedExpenses) /\ removeFixedExpense(arg) =>
            /\ fixedExpenses' = fixedExpenses
            /\ activeGoals' = activeGoals
            /\ thrown' = ""
     /\ (HeldByNone(0) /\ removeGoal(0)) =>
            /\ fixedExpenses' = fixedExpenses
            /\ activeGoals' = activeGoals
            /\ thrown' = ""]_vars

-----------------------------------------------------------------------------
(* Hydration on its own: sign-in of a user whose stored document has any    *)
(* subset of the optional fields                                             *)

OptionalFields == Fields \ {"email", "createdAt"}

\* the document of a returning user reduced to email, createdAt and the
\* optional fields of S
partialDoc(dim, S) ==
  [f \in DOMAIN EmptyDoc |->
     IF f = "has" THEN {"email", "createdAt"} \cup S
     ELSE IF f \in {"email", "createdAt"} \cup S THEN returningDoc(dim)[f]
     ELSE EmptyDoc[f]]

InitHydrate ==
  /\ script \in Scripts
  /\ daysInMonth \in SessionMonths
  /\ now = startOf(daysInMonth)
  /\ uid = NoUid
  /\ authPc = "idle"
  /\ \E S \in SUBSET OptionalFields :
       remote = [exists |-> TRUE, doc |-> partialDoc(daysInMonth, S)]
  /\ inflight = <<>>
  /\ timers = 0
  /\ bareTimers = 0
  /\ lastWrite = NoWrite
  /\ userData = EmptyDoc
  /\ preData = EmptyDoc
  /\ userProfile = [name |-> "", phone |-> "", avatar |-> "", tempAvatar |-> ""]
  /\ transactions = <<>>
  /\ fixedExpenses = <<>>
  /\ activeGoals = <<>>
  /\ activeLoans = <<>>
  /\ chatStore = EmptyMap
  /\ groupMembers = EmptyMap
  /\ monthlyLimit = (IF script = "backend" THEN 30000 ELSE 0)
  /\ dailySpent = 0
  /\ safeSpendAmount = Unset
  /\ heatmap = <<>>
  /\ currentFilter = "month"
  /\ sentimentTotals = Unset
  /\ currentChatId = "Roommates"
  /\ renderTimers = 0
  /\ tempMembers = <<>>
  /\ tzOffset = 0
  /\ toast = ""
  /\ thrown = ""
  /\ ops = 0
  /\ ticks = 0

NextHydrate == AuthStateChanged \/ GetDocFound

SpecHydrate == InitHydrate /\ [][NextHydrate]_vars

-----------------------------------------------------------------------------
(* C20: hydration from a document that lacks optional fields *)

\* the ready signal of a user whose document existed
ExistingHydration == authPc = "getDoc" /\ authPc' = "ready" /\ remote.exists

\* C20: hydration from an existing document that lacks any subset of the
\* optional fields does not fail: the application initialises (the figure
\* and the heatmap are drawn, nothing is thrown) and every field the
\* document lacks has its default in the ledger: an empty collection, a
\* monthly limit of 0, the default profile
C20_MissingFieldsDefaulted ==
  [][ExistingHydration =>
       LET lacks(f) == f \notin remote.doc.has IN
       /\ thrown' = ""
       /\ IsFinite(safeSpendAmount')
       /\ heatmap' # <<>>
       /\ lacks("monthlyLimit") => monthlyLimit' = 0
       /\ lacks("transactions") => transactions' = <<>>
       /\ lacks("fixedExpenses") => fixedExpenses' = <<>>
       /\ lacks("goals") => activeGoals' = <<>>
       /\ lacks("loans") => activeLoans' = <<>>
       /\ lacks("chatGroups") => chatStore'.at = EmptyMap.at
       /\ lacks("groupMembers") => groupMembers'.at = EmptyMap.at
       /\ lacks("name") => userProfile'.name = "User"
       /\ lacks("phone") => userProfile'.phone = ""
       /\ lacks("avatar") => userProfile'.avatar = defaultAvatar]_vars

-----------------------------------------------------------------------------
(* C21: the ready signal *)

\* the step in which "firestore-ready" is dispatched and handled
ReadySignal == authPc # "ready" /\ authPc' = "ready"

\* C21: the ready signal is emitted only after the identity has been set and
\* the remote document has been loaded into window.userData, once per
\* signed-in notification; while no user is signed in no ready signal is
\* emitted and no ledger is hydrated (the ledger and window.userData change
\* by the calls of the page only)
C21_ReadyAfterLoad ==
  [][/\ ReadySignal =>
          /\ uid # NoUid /\ uid' = uid
          /\ authPc \in {"getDoc", "creating"}
          /\ remote'.exists /\ userData' = remote'.doc
     /\ authPc = "ready" => authPc' = "ready"
     /\ uid = NoUid =>
          /\ authPc = "idle" /\ authPc' \in {"idle", "getDoc"}
          /\ ops' = ops => ledger' = ledger /\ userData' = userData]_vars

\* the signal has been emitted for a signed-in user after a mutation made
\* before the sign-in: the snapshot is the stored document
C21_Witness ==
  /\ authPc = "ready" /\ uid # NoUid
  /\ remote.exists /\ userData = remote.doc
  /\ ops > 0

-----------------------------------------------------------------------------
(* C22: rejected calls are reported *)

\* a call of one of the mutators that returned without changing the ledger
\* and without requesting a commit
CallRejected ==
  /\ \/ SaveTransaction \/ SaveGoal \/ AddFixedExpense \/ SaveLoan
     \/ SendSquadChat \/ CreateNewGroup
  /\ ledger' = ledger
  /\ inflight' = inflight /\ timers' = timers

\* C22: every call of a mutator that is rejected (it returns without
\* changing the ledger or requesting a commit, and without an error thrown)
\* is reported by a notification: the input is never dropped silently
C22_RejectionsNotified ==
  [][(CallRejected /\ thrown' = "") => toast' # ""]_vars

-----------------------------------------------------------------------------
(* C23: commits and hydration *)

\* the collections of a document
Collections(d) == <<d.transactions, d.fixedExpenses, d.goals, d.loans>>

\* the write inflight[i] is applied to the store in this step
Lands(i) ==
  /\ inflight' = RemoveAt(inflight, i)
  /\ lastWrite' = Completed(inflight[i], TRUE)
  /\ remote' = applyWrite(remote, inflight[i])

\* a payload that is not a hydrated snapshot: only a document loaded from the
\* store has createdAt
Unhydrated(data) == "createdAt" \notin data.has

\* C23: no commit writes ledger collections to the store before hydration
\* has completed, and a commit of a mutation made before the ready signal
\* (its payload is the un-hydrated snapshot) never overwrites the
\* collections of a document that existed before the session
C23_NoCommitBeforeHydration ==
  [][\A i \in 1..Len(inflight) :
       (Lands(i) /\ inflight[i].op = "merge" /\ remote.exists
          /\ ~Unhydrated(remote.doc)) =>
         /\ authPc # "ready" => Collections(remote'.doc) = Collections(remote.doc)
         /\ Unhydrated(inflight[i].data) =>
              Collections(remote'.doc) = Collections(remote.doc)]_vars

-----------------------------------------------------------------------------
(* C24: commits in flight *)

\* the write inflight[i] completes in this step, accepted or rejected
Completes(i) ==
  /\ inflight' = RemoveAt(inflight, i)
  /\ lastWrite' \in {Completed(inflight[i], TRUE), Completed(inflight[i], FALSE)}

\* the fields of the payload are the fields of the document
PayloadWins(data, d) ==
  /\ "transactions" \in data.has => d.transactions = data.transactions
  /\ "fixedExpenses" \in data.has => d.fixedExpenses = data.fixedExpenses
  /\ "goals" \in data.has => d.goals = data.goals
  /\ "loans" \in data.has => d.loans = data.loans
  /\ "monthlyLimit" \in data.has => d.monthlyLimit = data.monthlyLimit

-----------------------------------------------------------------------------
(* C25: round trip through the store *)

\* monthlyLimit when the script has just been loaded
initialLimit(sc) == IF sc = "backend" THEN 30000 ELSE 0

\* the ledger a session that has just started has after the firestore-ready
\* handler has run on the document data
hydratedLedger(sc, data) ==
  [userProfile |-> [name |-> OrStr(data.name, "User"), phone |-> data.phone,
                    avatar |-> OrStr(data.avatar, defaultAvatar),
                    tempAvatar |-> ""],
   transactions |-> data.transactions,
   fixedExpenses |-> data.fixedExpenses,
   goals |-> data.goals,
   loans |-> data.loans,
   chatGroups |-> withRoommates(data.chatGroups),
   groupMembers |-> withRoommates(data.groupMembers),
   monthlyLimit |-> hydratedLimit(sc, data, initialLimit(sc))]

\* the document window.userData is after saveState() has run on the ledger
\* as it stands
committedNow ==
  UserDataDoc(savedUserData(script, userData, userProfile, monthlyLimit),
              transactions, fixedExpenses, activeGoals, activeLoans, chatStore,
              groupMembers)

\* the ledger of a new session that hydrates after the commit of the present
\* ledger has been accepted by the store
roundTrip == hydratedLedger(script, applyWrite(remote, Write("merge", committedNow, FALSE)).doc)

\* C25: for the ledger of a hydrated session, if it is committed
\* successfully and a new session then hydrates from the stored document,
\* the hydrated ledger equals the committed one in profile, monthlyLimit,
\* transactions, fixedExpenses, goals, loans, chatGroups and groupMembers
C25_RoundTrip ==
  authPc = "ready" =>
    /\ profileOf(roundTrip.userProfile) = profileOf(userProfile)
    /\ roundTrip.monthlyLimit = monthlyLimit
    /\ roundTrip.transactions = transactions
    /\ roundTrip.fixedExpenses = fixedExpenses
    /\ roundTrip.goals = activeGoals
    /\ roundTrip.loans = activeLoans
    /\ roundTrip.chatGroups = chatStore
    /\ roundTrip.groupMembers = groupMembers

-----------------------------------------------------------------------------
(* C26: the daily contribution of a goal *)

\* the days from t until the instant the deadline is read as, rounded up;
\* not positive for a deadline that has passed
daysUntil(deadline, t) == 0 - ((t - targetDate(deadline, tzOffset)) \div oneDayMs)

\* ceil(amount / max(daysUntil(deadline), 1))
dailyContribution(amount, deadline, t) ==
  LET d == daysUntil(deadline, t)
      divisor == IF d > 1 THEN d ELSE 1
  IN 0 - ((0 - amount) \div divisor)

\* C26: the goal saveGoal stores has daily = ceil(amount / max(daysUntil(
\* deadline), 1)), so that a deadline of today or of the past gives the full
\* target amount, and the stored value does not change as time passes
C26_DailyContribution ==
  [][/\ GoalAdded =>
          LET g == activeGoals'[Len(activeGoals')] IN
          IsFinite(g.amount) =>
            g.daily = Num(dailyContribution(g.amount.v, g.deadline, now))
     /\ ticks' # ticks => activeGoals' = activeGoals]_vars

-----------------------------------------------------------------------------
(* C27: the monthly limit entered in the budget settings *)

\* C27: saveBudgetSettings called with the text of a non-negative integer v,
\* v = 0 included, sets monthlyLimit to v, and the figure it then shows is
\* the safe-spend derived with v
C27_LimitSetToInput ==
  [][\A t \in LimitTexts :
       (saveBudgetSettings(t) /\ IsFinite(parseInt(t)) /\ parseInt(t).v >= 0) =>
         /\ monthlyLimit' = parseInt(t).v
         /\ safeSpendAmount' = dailySafeSpend']_vars

-----------------------------------------------------------------------------
(* C28: creating a group *)

\* a commit is requested in this step: a write is issued or the retry timer
\* is armed
CommitRequested == Len(inflight') > Len(inflight) \/ timers' > timers

\* C28: createNewGroup called with a non-empty name completes without
\* error, sets the members of the group, gives the group a history of the
\* single system message unless it already has a history, which is kept, and
\* requests a commit
C28_GroupCreated ==
  [][\A n \in NewGroupNames :
       (n # "" /\ createNewGroup(n)) =>
         /\ thrown' = ""
         /\ n \in groupMembers'.keys
         /\ n \in chatStore'.keys
         /\ IF n \in chatStore.keys /\ chatStore.at[n] # <<>>
              THEN chatStore'.at[n] = chatStore.at[n]
              ELSE Len(chatStore'.at[n]) = 1 /\ chatStore'.at[n][1].type = "system"
         /\ CommitRequested]_vars

-----------------------------------------------------------------------------
(* C29: one transaction list *)

\* the cells of the heatmap when window.userData has the script's transactions
heatmapOfLedger(tx) ==
  renderHeatmap(script,
                UserDataDoc([userData EXCEPT !.has = @ \cup {"transactions"}],
                            tx, fixedExpenses, activeGoals, activeLoans, chatStore,
                            groupMembers),
                tx, daysInMonth)

\* a transaction has been added at the head of the list without error; it
\* is in the heatmap drawn, in the transactions the sentiment rollup selects
\* and in the snapshot of the commit requested
AddedEverywhere ==
  /\ thrown' = ""
  /\ Len(transactions') = Len(transactions) + 1
  /\ Tail(transactions') = transactions
  /\ heatmap' = heatmapOfLedger(transactions')
  /\ Head(getFilteredTransactions(transactions', "day", now')) = Head(transactions')
  /\ curUserData'.transactions = transactions'
  /\ CommitRequested
  /\ Len(inflight') > Len(inflight) =>
       inflight'[Len(inflight')].data.transactions = transactions'

\* C29: after hydration a transaction added through saveTransaction or
\* through addQuickExpense is added without error and appears in the
\* heatmap, in the sentiment rollup and in the next committed snapshot, also
\* when the stored document had no transactions field
C29_OneTransactionList ==
  [][authPc = "ready" =>
       /\ \A s \in Sentiments : saveTransaction("Cafe", "100", s) => AddedEverywhere
       /\ addQuickExpense("Cafe", "100") => AddedEverywhere]_vars

-----------------------------------------------------------------------------
(* C30: the transaction list grows at its head only *)

\* the timestamps of tx never increase along the list
NewestFirst(tx) ==
  \A i \in 1..(Len(tx) - 1) : tx[i].timestamp >= tx[i + 1].timestamp

\* C30: after hydration every step leaves the transaction list as it is or
\* puts one new transaction at its head, the transactions it had staying as
\* they were and in their order, and the list is ordered newest-first by
\* timestamp
C30_HeadInsertionOnly ==
  [][(authPc = "ready" /\ authPc' = "ready") =>
       /\ \/ transactions' = transactions
          \/ /\ Len(transactions') = Len(transactions) + 1
             /\ Tail(transactions') = transactions
       /\ NewestFirst(transactions) /\ NewestFirst(transactions')]_vars

\* two transactions have been added after hydration to a list that had one:
\* the newest is at the head and the oldest at the end
C30_Witness ==
  /\ authPc = "ready" /\ ops = 2
  /\ Len(transactions) = 3
  /\ transactions[1].timestamp > transactions[2].timestamp
  /\ transactions[2].timestamp > transactions[3].timestamp
  /\ transactions[3].timestamp < startOf(daysInMonth)

====
